---- MODULE Spec2Model ----
(***************************************************************************)
(* Model of data_prepare.py: note-name resolution (Note.note), the         *)
(* equal-tempered frequency model (Sample.note_to_freq), the Sample job    *)
(* (make_wav, transform_wav, clean) and the generation loop of main().     *)
(*                                                                         *)
(* Python strings that the code inspects character by character are        *)
(* sequences of one-character strings; strings that are only built and     *)
(* compared (file names) are TLA+ strings built with \o.                   *)
(* A float frequency 440*2^(e/12) is carried as its semitone exponent e;   *)
(* where the code formats it ("%.3f") the model uses milli-hertz.          *)
(***************************************************************************)
EXTENDS Integers, Sequences, FiniteSets, TLC

VARIABLES
    GM_PATCHES,   \* the module-level list shuffled by main (l.13, l.143)
    pc,           \* position in main()
    octave,       \* loop variable of l.142
    patch,        \* loop variable of l.144
    program,      \* l.145
    keyIdx,       \* position of the l.146 loop in Note.names (1-based)
    sample,       \* the Sample object of the current iteration (l.147)
    base,         \* outcome of the synthesizer run by sample.make_wav
    shifts,       \* the array iterated by l.150
    shiftIdx,     \* position of the l.150 loop in shifts (1-based)
    issued,       \* transform_wav invocations made on the current sample
    failed,       \* how many of them ended with a failing transform tool
    trace,        \* method calls made on the current sample, in order
    used,         \* programs taken from GM_PATCHES in the current pass
    reported,     \* failure reports emitted by the program
    outdir,       \* files the transform tool was told to write, this run
    clobbered,    \* files it was told to write more than once
    noteArg,      \* argument of a direct call of Note.note
    noteRet,      \* its outcome
    freqRet       \* outcome of note_to_freq on the same spelling and octave

mainVars == <<GM_PATCHES, pc, octave, patch, program, keyIdx, sample, base,
              shifts, shiftIdx, issued, failed, trace, used, reported>>
dirVars == <<outdir, clobbered>>
noteVars == <<noteArg, noteRet, freqRet>>
vars == <<mainVars, dirVars, noteVars>>

(***************************************************************************)
(* Bounds of the model.                                                    *)
(***************************************************************************)
\* main() shuffles all 25 programs; the model shuffles the first CatalogLen.
CatalogLen == 3
\* main() takes the first 15 programs of the shuffled list (l.144).
TakeLen == 2
\* main() loops over all 12 names (l.146); the model over the first NumKeys.
NumKeys == 2
\* main() draws 5 random shifts per job (l.150).
NumShifts == 2
\* main() draws shifts from 10..79 (l.150); the model from 10..ShiftHigh-1.
ShiftHigh == 12
\* Transform-tool failures explored per job while the base waveform exists.
MaxFailures == 1
\* Longest string handed to Note.note, over Alphabet.
MaxStrLen == 4

(***************************************************************************)
(* Program constants.                                                      *)
(***************************************************************************)
OctaveStart == 4
OctaveStop == 5
ShiftLow == 10
A4Exponent == 46

Catalog ==
    <<0, 3, 6, 11, 16, 19, 22, 24, 26, 30, 32, 33, 40, 42, 48, 51, 52, 56,
      57, 61, 65, 66, 71, 73, 78>>

\* Note.values (keys are lower case)
values == [c \in {"c", "d", "e", "f", "g", "a", "b"} |->
             CASE c = "c" -> 0 [] c = "d" -> 2 [] c = "e" -> 4 [] c = "f" -> 5
               [] c = "g" -> 7 [] c = "a" -> 9 [] c = "b" -> 11]

\* Note.names
names == << <<"C">>, <<"C", "s">>, <<"D">>, <<"D", "s">>, <<"E">>, <<"F">>,
            <<"F", "s">>, <<"G">>, <<"G", "s">>, <<"A">>, <<"A", "s">>, <<"B">> >>

(***************************************************************************)
(* Strings.                                                                *)
(***************************************************************************)
Digits == <<"0", "1", "2", "3", "4", "5", "6", "7", "8", "9">>
DigitChars == {Digits[i] : i \in 1..10}
UpperLetters == {"A", "B", "C", "D", "E", "F", "G"}
LowerLetters == {"a", "b", "c", "d", "e", "f", "g"}
LetterChars == UpperLetters \cup LowerLetters      \* [ABCDEFGabcdefg]
AccChars == {"b", "#", "s"}                        \* [b#s]

\* str.lower() on one character of the classes the pattern lets through
Lower(c) ==
    CASE c = "A" -> "a" [] c = "B" -> "b" [] c = "C" -> "c" [] c = "D" -> "d"
      [] c = "E" -> "e" [] c = "F" -> "f" [] c = "G" -> "g" [] OTHER -> c

\* int() on one decimal digit
DigitValue(c) == CHOOSE d \in 0..9 : Digits[d + 1] = c

\* the characters of str(n), n a non-negative integer
RECURSIVE IntChars(_)
IntChars(n) == IF n < 10 THEN <<Digits[n + 1]>>
               ELSE Append(IntChars(n \div 10), Digits[(n % 10) + 1])

\* the Python string made of the characters of s
RECURSIVE Join(_)
Join(s) == IF s = <<>> THEN "" ELSE Head(s) \o Join(Tail(s))

\* str(n)
IntStr(n) == Join(IntChars(n))

(***************************************************************************)
(* Note.note (l.57-74).                                                    *)
(***************************************************************************)
None == [matched |-> FALSE, g1 |-> "", g2 |-> "", g3 |-> ""]

\* re.match('^([ABCDEFGabcdefg])([b#s]?)([0-9])$', str): the match object's
\* groups, or None.  Without re.MULTILINE, $ matches at the end of the string
\* and also just before a newline that is the string's last character.
ReMatch(str) ==
    LET n == Len(str)
        body == IF n > 0 /\ str[n] = "\n" THEN SubSeq(str, 1, n - 1) ELSE str
        m == Len(body)
    IN  IF m = 2 /\ body[1] \in LetterChars /\ body[2] \in DigitChars
        THEN [matched |-> TRUE, g1 |-> body[1], g2 |-> "", g3 |-> body[2]]
        ELSE IF m = 3 /\ body[1] \in LetterChars /\ body[2] \in AccChars
                /\ body[3] \in DigitChars
        THEN [matched |-> TRUE, g1 |-> body[1], g2 |-> body[2], g3 |-> body[3]]
        ELSE None

Return(v) == [kind |-> "return", value |-> v, exc |-> ""]
Raise(e) == [kind |-> "raise", value |-> 0, exc |-> e]
Pending == [kind |-> "pending", value |-> 0, exc |-> ""]

\* l.65-71
AccShift(acc) ==
    IF acc = "b" THEN -1
    ELSE IF acc = "#" THEN 1
    ELSE IF acc = "s" THEN 1
    ELSE 0

\* l.73 with the octave taken as is: (octave * 12) for ((octave + 1) * 12)
NoteValueOctaveAsIs(note, acc, oct) == (oct * 12) + values[note] + AccShift(acc)

\* l.73
NoteValue(note, acc, oct) == ((oct + 1) * 12) + values[note] + AccShift(acc)

\* Note.note: matches.group(1) on None raises AttributeError (l.61)
Note_note(str) ==
    LET matches == ReMatch(str)
    IN  IF ~matches.matched THEN Raise("AttributeError")
        ELSE Return(NoteValue(Lower(matches.g1), Lower(matches.g2),
                              DigitValue(matches.g3)))

(***************************************************************************)
(* Sample.note_to_freq (l.84-91).                                          *)
(***************************************************************************)
\* note_map[note_name] = i (0-based position in Note.names), l.86-88
NoteMapHas(note) == \E i \in 1..Len(names) : names[i] = note
NoteMap(note) == (CHOOSE i \in 1..Len(names) : names[i] = note) - 1

\* l.90 without the 1-based correction of the key number
KeyNumberZeroBased(note, oct) == NoteMap(note) + ((oct - 1) * 12)

\* l.90
KeyNumber(note, oct) == NoteMap(note) + ((oct - 1) * 12) + 1

\* The returned float is a_440 * 2^(e/12); the model returns e = key - 46.
\* note_map[note] raises KeyError for a spelling that is not in Note.names.
note_to_freq(note, oct) ==
    IF ~NoteMapHas(note) THEN Raise("KeyError")
    ELSE Return(KeyNumber(note, oct) - A4Exponent)

\* 440*2^(e/12) in milli-hertz, rounded as "%.3f" rounds it, for the
\* exponents of octave 4 (C4 = -9 .. B4 = 2).
FreqMilli(e) ==
    CASE e = -9 -> 261626 [] e = -8 -> 277183 [] e = -7 -> 293665
      [] e = -6 -> 311127 [] e = -5 -> 329628 [] e = -4 -> 349228
      [] e = -3 -> 369994 [] e = -2 -> 391995 [] e = -1 -> 415305
      [] e = 0 -> 440000 [] e = 1 -> 466164 [] e = 2 -> 493883

\* "%.3f" % x for x given in milli-hertz
Fmt3(milli) ==
    LET frac == milli % 1000
    IN  IntStr(milli \div 1000) \o "." \o Digits[(frac \div 100) + 1]
          \o Digits[((frac \div 10) % 10) + 1] \o Digits[(frac % 10) + 1]

(***************************************************************************)
(* Sample (l.81-138).                                                      *)
(***************************************************************************)
NoSample ==
    [name |-> "", mid_filename |-> "", tmp_filename |-> "", key |-> <<>>,
     octave |-> 0, note |-> <<>>, freq |-> 0, pitch |-> 0, new_freq |-> 0]

\* "data/note-%s%s-P%s" % (key, octave, program), l.147
SampleName(key, oct, prog) ==
    "data/note-" \o Join(key) \o IntStr(oct) \o "-P" \o IntStr(prog)

\* Sample.__init__ (l.93-106); pitch is the Note.note(self.note) handed to
\* addNote, freq the exponent of note_to_freq(key, octave).  main() builds
\* samples from Note.names and octave 4 only, for which neither call raises.
\* new_freq is set by transform_wav only (0: not set yet).
NewSample(name, key, oct) ==
    LET note == key \o IntChars(oct)
    IN  [name |-> name,
         mid_filename |-> name \o ".mid",
         tmp_filename |-> name \o "-" \o "full" \o ".wav",
         key |-> key,
         octave |-> oct,
         note |-> note,
         freq |-> note_to_freq(key, oct).value,
         pitch |-> Note_note(note).value,
         new_freq |-> 0]

\* l.123: self.freq + pitch_shift_hz, in milli-hertz
NewFreq(freq, pitch_shift_hz) == FreqMilli(freq) + (1000 * pitch_shift_hz)

\* l.125-127 with the segment suffix left out of the name
WavFileNoSuffix(name, new_freq, pitch_shift_hz, suffix) ==
    name \o "-" \o Fmt3(new_freq) \o "-" \o "S" \o IntStr(pitch_shift_hz)
         \o ".wav"

\* l.125-127
WavFile(name, new_freq, pitch_shift_hz, suffix) ==
    name \o "-" \o Fmt3(new_freq) \o "-" \o "S" \o IntStr(pitch_shift_hz)
         \o "-" \o suffix \o ".wav"

\* Exit statuses os.system can return for the transform tool (l.131): it
\* cannot read a base waveform that the synthesizer did not produce.
ToolExits ==
    IF base # "ok" THEN {1}
    ELSE IF failed < MaxFailures THEN {0, 1}
    ELSE {0}

(***************************************************************************)
(* main (l.141-158).                                                       *)
(***************************************************************************)
Range(s) == {s[i] : i \in 1..Len(s)}

IsPermutationOf(p, list) ==
    /\ Len(p) = Len(list)
    /\ \E f \in [1..Len(list) -> 1..Len(list)] :
          /\ \A i, j \in 1..Len(list) : f[i] = f[j] => i = j
          /\ \A i \in 1..Len(list) : p[i] = list[f[i]]

\* l.143 drawing each position independently (random.choices for shuffle)
DrawnWithReplacement(list) == [1..Len(list) -> Range(list)]

\* the lists random.shuffle(list) can leave in place of list (l.143)
Shuffled(list) ==
    {p \in [1..Len(list) -> Range(list)] : IsPermutationOf(p, list)}

\* np.random.randint(low, high, n): n integers of low..high-1
RandInt(low, high, n) == [1..n -> low..(high - 1)]

\* l.150 without the baseline: the random shifts alone
ShiftArraysNoBaseline == RandInt(ShiftLow, ShiftHigh, NumShifts)

\* the arrays np.concatenate((np.array([0]), np.random.randint(10, 80, 5)))
\* can be (l.150)
ShiftArrays == {<<0>> \o r : r \in RandInt(ShiftLow, ShiftHigh, NumShifts)}

InitMain ==
    /\ GM_PATCHES = SubSeq(Catalog, 1, CatalogLen)
    /\ pc = "octave"
    /\ octave = OctaveStart
    /\ patch = 0
    /\ program = 0
    /\ keyIdx = 0
    /\ sample = NoSample
    /\ base = "none"
    /\ shifts = <<>>
    /\ shiftIdx = 0
    /\ issued = <<>>
    /\ failed = 0
    /\ trace = <<>>
    /\ used = <<>>
    /\ reported = <<>>

InitDir == outdir = {} /\ clobbered = {}

InitNoCall == noteArg = <<>> /\ noteRet = Pending /\ freqRet = Pending

\* l.142-143: for octave in range(4, 5): random.shuffle(GM_PATCHES)
OctaveLoop ==
    /\ pc = "octave"
    /\ IF octave < OctaveStop
       THEN /\ GM_PATCHES' \in Shuffled(GM_PATCHES)
            /\ patch' = 0
            /\ used' = <<>>
            /\ pc' = "patch"
       ELSE /\ pc' = "done"
            /\ UNCHANGED <<GM_PATCHES, patch, used>>
    /\ UNCHANGED <<octave, program, keyIdx, sample, base, shifts, shiftIdx,
                   issued, failed, trace, reported>>

\* l.144-145: for patch in range(0, 15): program = GM_PATCHES[patch]
PatchLoop ==
    /\ pc = "patch"
    /\ IF patch < TakeLen
       THEN /\ program' = GM_PATCHES[patch + 1]
            /\ used' = Append(used, GM_PATCHES[patch + 1])
            /\ keyIdx' = 1
            /\ pc' = "key"
            /\ UNCHANGED octave
       ELSE /\ octave' = octave + 1
            /\ pc' = "octave"
            /\ UNCHANGED <<program, used, keyIdx>>
    /\ UNCHANGED <<GM_PATCHES, patch, sample, base, shifts, shiftIdx, issued,
                   failed, trace, reported>>

\* l.146-148: for key in Note.names: sample = Sample(...)
KeyLoop ==
    /\ pc = "key"
    /\ IF keyIdx <= NumKeys
       THEN /\ sample' = NewSample(SampleName(names[keyIdx], octave, program),
                                   names[keyIdx], octave)
            /\ base' = "none"
            /\ shifts' = <<>>
            /\ shiftIdx' = 0
            /\ issued' = <<>>
            /\ failed' = 0
            /\ trace' = <<>>
            /\ pc' = "make_wav"
            /\ UNCHANGED patch
       ELSE /\ patch' = patch + 1
            /\ pc' = "patch"
            /\ UNCHANGED <<sample, base, shifts, shiftIdx, issued, failed, trace>>
    /\ UNCHANGED <<GM_PATCHES, octave, program, keyIdx, used, reported>>

\* l.149, Sample.make_wav (l.112-115): save(), then the synthesizer through
\* os.system, whose exit status is dropped.
MakeWav ==
    /\ pc = "make_wav"
    /\ \E status \in {0, 1} : base' = IF status = 0 THEN "ok" ELSE "failed"
    /\ trace' = Append(trace, "make_wav")
    /\ pc' = "draw"
    /\ UNCHANGED <<GM_PATCHES, octave, patch, program, keyIdx, sample, shifts,
                   shiftIdx, issued, failed, used, reported>>

\* l.150: the array the for loop iterates is built once
DrawShifts ==
    /\ pc = "draw"
    /\ shifts' \in ShiftArrays
    /\ shiftIdx' = 1
    /\ pc' = IF Len(shifts') >= 1 THEN "attack" ELSE "clean"
    /\ UNCHANGED <<GM_PATCHES, octave, patch, program, keyIdx, sample, base,
                   issued, failed, trace, used, reported>>

\* Sample.transform_wav (l.117-132); times in hundredths of a second.  The
\* exit status of the transform tool is dropped.
TransformWav(suffix, start_s, duration, pitch_shift_hz) ==
    LET new_freq == NewFreq(sample.freq, pitch_shift_hz)
        wav_file == WavFile(sample.name, new_freq, pitch_shift_hz, suffix)
    IN  /\ sample' = [sample EXCEPT !.new_freq = new_freq]
        /\ issued' = Append(issued,
                            [suffix |-> suffix, start_s |-> start_s,
                             duration |-> duration,
                             pitch_shift_hz |-> pitch_shift_hz,
                             shifted |-> (pitch_shift_hz # 0),
                             input |-> sample.tmp_filename,
                             wav_file |-> wav_file])
        /\ \E status \in ToolExits :
              failed' = IF status = 0 THEN failed ELSE failed + 1
        /\ trace' = Append(trace, "transform_wav")

\* l.151-152
Attack ==
    /\ pc = "attack"
    /\ TransformWav("attack", 0, 33, shifts[shiftIdx])
    /\ pc' = "sustain"
    /\ UNCHANGED <<GM_PATCHES, octave, patch, program, keyIdx, base, shifts,
                   shiftIdx, used, reported>>

\* l.153-154
Sustain ==
    /\ pc = "sustain"
    /\ TransformWav("sustain", 33, 33, shifts[shiftIdx])
    /\ pc' = "decay"
    /\ UNCHANGED <<GM_PATCHES, octave, patch, program, keyIdx, base, shifts,
                   shiftIdx, used, reported>>

\* l.155-156 with the l.150 loop left after its first offset
DecayLeavesLoop ==
    /\ pc = "decay"
    /\ TransformWav("decay", 66, 33, shifts[shiftIdx])
    /\ shiftIdx' = shiftIdx + 1
    /\ pc' = "clean"
    /\ UNCHANGED <<GM_PATCHES, octave, patch, program, keyIdx, base, shifts,
                   used, reported>>

\* l.155-156, and the step of the l.150 loop
Decay ==
    /\ pc = "decay"
    /\ TransformWav("decay", 66, 33, shifts[shiftIdx])
    /\ shiftIdx' = shiftIdx + 1
    /\ pc' = IF shiftIdx < Len(shifts) THEN "attack" ELSE "clean"
    /\ UNCHANGED <<GM_PATCHES, octave, patch, program, keyIdx, base, shifts,
                   used, reported>>

\* l.158, Sample.clean (l.134-138): prints "." and removes nothing
Clean ==
    /\ pc = "clean"
    /\ trace' = Append(trace, "clean")
    /\ keyIdx' = keyIdx + 1
    /\ pc' = "key"
    /\ UNCHANGED <<GM_PATCHES, octave, patch, program, sample, base, shifts,
                   shiftIdx, issued, failed, used, reported>>

\* The output directory: every transform_wav invocation names one file for
\* the transform tool to write (l.131-132).
DirWrite ==
    IF Len(issued') > Len(issued)
    THEN LET f == issued'[Len(issued')].wav_file
         IN  /\ outdir' = outdir \cup {f}
             /\ clobbered' = IF f \in outdir THEN clobbered \cup {f}
                             ELSE clobbered
    ELSE UNCHANGED dirVars

NoDir == UNCHANGED dirVars /\ UNCHANGED noteVars
WithDir == DirWrite /\ UNCHANGED noteVars

Init == InitMain /\ InitDir /\ InitNoCall

\* main() with the job-level state only: the directory is left out.
Next ==
    \/ OctaveLoop /\ NoDir
    \/ PatchLoop /\ NoDir
    \/ KeyLoop /\ NoDir
    \/ MakeWav /\ NoDir
    \/ DrawShifts /\ NoDir
    \/ Attack /\ NoDir
    \/ Sustain /\ NoDir
    \/ Decay /\ NoDir
    \/ Clean /\ NoDir

Spec == Init /\ [][Next]_vars

\* main() with the files named in the output directory during the run.
NextDir ==
    \/ OctaveLoop /\ WithDir
    \/ PatchLoop /\ WithDir
    \/ KeyLoop /\ WithDir
    \/ MakeWav /\ WithDir
    \/ DrawShifts /\ WithDir
    \/ Attack /\ WithDir
    \/ Sustain /\ WithDir
    \/ Decay /\ WithDir
    \/ Clean /\ WithDir

SpecDir == Init /\ [][NextDir]_vars

(***************************************************************************)
(* Direct calls of Note.note and Sample.note_to_freq.                      *)
(***************************************************************************)
Alphabet == {"C", "a", "b", "#", "4", "1", "H", "\n"}

\* every string over Alphabet of at most MaxStrLen characters
ShortStrings == UNION {[1..n -> Alphabet] : n \in 0..MaxStrLen}

\* every string <letter><accidental?><digit>, alone and followed by a newline
ShapeStrings ==
    {<<l, d>> : l \in LetterChars, d \in DigitChars}
      \cup {<<l, a, d>> : l \in LetterChars, a \in AccChars, d \in DigitChars}
NoteInputs ==
    ShortStrings \cup ShapeStrings \cup {Append(s, "\n") : s \in ShapeStrings}

\* the key and octave that Sample.__init__ (l.100) would have joined to str
SpellingOf(str) ==
    LET m == ReMatch(str) IN IF m.g2 = "" THEN <<m.g1>> ELSE <<m.g1, m.g2>>
OctaveOf(str) == DigitValue(ReMatch(str).g3)

InitNote ==
    /\ InitMain
    /\ InitDir
    /\ noteArg \in NoteInputs
    /\ noteRet = Pending
    /\ freqRet = Pending

CallNote ==
    /\ noteRet.kind = "pending"
    /\ noteRet' = Note_note(noteArg)
    /\ UNCHANGED <<mainVars, dirVars, noteArg, freqRet>>

CallFreq ==
    /\ noteRet.kind = "return"
    /\ freqRet.kind = "pending"
    /\ freqRet' = note_to_freq(SpellingOf(noteArg), OctaveOf(noteArg))
    /\ UNCHANGED <<mainVars, dirVars, noteArg, noteRet>>

NextNote == CallNote \/ CallFreq
SpecNote == InitNote /\ [][NextNote]_vars

(***************************************************************************)
(* Properties.                                                             *)
(***************************************************************************)
Segments == {"attack", "sustain", "decay"}

\* the current job has been finalized: clean() was its last call
Finalized == trace # <<>> /\ trace[Len(trace)] = "clean"

Reports(kind, job) ==
    {i \in DOMAIN reported : reported[i] = [kind |-> kind, job |-> job]}

\* C1: if the synthesizer run by make_wav fails for a job, no transform_wav
\* invocation is attempted for that job and exactly one RenderFailure naming
\* the job is reported (stated of the job once it is finalized).
C1_RenderFailureGatesAugmentation ==
    (Finalized /\ base = "failed") =>
        /\ issued = <<>>
        /\ Cardinality(Reports("RenderFailure", sample.name)) = 1

\* the shape <letter><optional accidental><single digit>, as spec.md 4.1 words it
ClaimShape(s) ==
    /\ Len(s) \in {2, 3}
    /\ s[1] \in {"A", "B", "C", "D", "E", "F", "G",
                 "a", "b", "c", "d", "e", "f", "g"}
    /\ s[Len(s)] \in {"0", "1", "2", "3", "4", "5", "6", "7", "8", "9"}
    /\ Len(s) = 3 => s[2] \in {"b", "#", "s"}

ClaimOffset(l) ==
    CASE l \in {"C", "c"} -> 0 [] l \in {"D", "d"} -> 2 [] l \in {"E", "e"} -> 4
      [] l \in {"F", "f"} -> 5 [] l \in {"G", "g"} -> 7 [] l \in {"A", "a"} -> 9
      [] l \in {"B", "b"} -> 11

ClaimShift(s) ==
    IF Len(s) = 2 THEN 0 ELSE IF s[2] = "b" THEN -1 ELSE 1

ClaimOctave(s) ==
    CHOOSE d \in 0..9 :
        <<"0", "1", "2", "3", "4", "5", "6", "7", "8", "9">>[d + 1] = s[Len(s)]

\* C2: for every string of the shape <letter><accidental?><digit>, Note.note
\* returns (octave+1)*12 + offset(letter) + accidental shift; C4 gives 60,
\* A4 gives 69, Cs4 gives 61 and Bb3 gives 58.
C2_NoteNumber ==
    noteRet.kind # "pending" =>
        /\ ClaimShape(noteArg) =>
              /\ noteRet.kind = "return"
              /\ noteRet.value = ((ClaimOctave(noteArg) + 1) * 12)
                                   + ClaimOffset(noteArg[1]) + ClaimShift(noteArg)
        /\ noteArg = <<"C", "4">> => noteRet.value = 60
        /\ noteArg = <<"A", "4">> => noteRet.value = 69
        /\ noteArg = <<"C", "s", "4">> => noteRet.value = 61
        /\ noteArg = <<"B", "b", "3">> => noteRet.value = 58

C2_Witness ==
    /\ noteArg = <<"B", "b", "3">>
    /\ noteRet.kind = "return"
    /\ noteRet.value = 58

\* C3: for every string that is not of the shape <letter><accidental?><digit>,
\* Note.note fails and returns no pitch number.
C3_MalformedRaises ==
    (noteRet.kind # "pending" /\ ~ClaimShape(noteArg)) => noteRet.kind = "raise"

\* C4 as claimed: for every string s of the shape, note_to_freq of
\* the spelling and the octave digit of s returns 440*2^((Note.note(s)-69)/12),
\* that is, key - 46 = Note.note(s) - 69.
C4_FreqOfEveryAcceptedString ==
    (freqRet.kind # "pending" /\ ClaimShape(noteArg)) =>
        /\ freqRet.kind = "return"
        /\ freqRet.value = noteRet.value - 69

\* s is one of the twelve spellings of Note.names followed by one digit
ClaimCanonical(s) ==
    \E n \in {<<"C">>, <<"C", "s">>, <<"D">>, <<"D", "s">>, <<"E">>, <<"F">>,
              <<"F", "s">>, <<"G">>, <<"G", "s">>, <<"A">>, <<"A", "s">>,
              <<"B">>} :
        \E d \in {"0", "1", "2", "3", "4", "5", "6", "7", "8", "9"} :
            s = Append(n, d)

\* C4 (amended): for every string s made of one of the twelve spellings of
\* Note.names and one octave digit, note_to_freq of that spelling and octave
\* returns 440*2^((Note.note(s)-69)/12): key - 46 = Note.note(s) - 69.
C4_FreqOfCanonicalSpelling ==
    (freqRet.kind # "pending" /\ ClaimCanonical(noteArg)) =>
        /\ noteRet.kind = "return"
        /\ freqRet.kind = "return"
        /\ freqRet.value = noteRet.value - 69

C4_Witness ==
    /\ noteArg = <<"A", "s", "5">>
    /\ noteRet.value = 82
    /\ freqRet.kind = "return"
    /\ freqRet.value = 13

\* how many positions of the sequence s hold x
Count(s, x) == Cardinality({i \in DOMAIN s : s[i] = x})

\* C5: the plan of a job has n+1 offsets, the baseline 0 plus n values of the
\* configured range, and every offset is paired with each of the three
\* segments: 3*(n+1) transform_wav invocations per job (n is NumShifts here).
C5_AugmentationPlan ==
    /\ pc \in {"attack", "sustain", "decay", "clean"} =>
          /\ Len(shifts) = NumShifts + 1
          /\ shifts[1] = 0
          /\ \A i \in 2..Len(shifts) : shifts[i] \in ShiftLow..(ShiftHigh - 1)
    /\ Finalized =>
          /\ Len(issued) = 3 * (NumShifts + 1)
          /\ \A i \in DOMAIN shifts : \A seg \in Segments :
                Cardinality({k \in DOMAIN issued :
                                /\ issued[k].pitch_shift_hz = shifts[i]
                                /\ issued[k].suffix = seg})
                  = Count(shifts, shifts[i])

C5_Witness ==
    /\ Finalized
    /\ Len(issued) = 3 * (NumShifts + 1)
    /\ \A i, j \in DOMAIN shifts : i # j => shifts[i] # shifts[j]

\* C6: for a fixed job and its offsets, two instructions get the same output
\* filename only if they have the same shift and the same segment.
C6_DistinctFilenames ==
    \A i, j \in DOMAIN issued :
        issued[i].wav_file = issued[j].wav_file =>
            /\ issued[i].pitch_shift_hz = issued[j].pitch_shift_hz
            /\ issued[i].suffix = issued[j].suffix

C6_Witness ==
    /\ Finalized
    /\ Cardinality({issued[k].wav_file : k \in DOMAIN issued}) = Len(issued)
    /\ \E k \in DOMAIN issued :
          issued[k].wav_file = "data/note-Cs4-P3-288.183-S11-sustain.wav"

\* C7: after any shuffle GM_PATCHES is still a permutation of the catalog,
\* and the programs taken from its prefix in a pass are pairwise distinct.
C7_NoProgramTwice ==
    /\ Len(GM_PATCHES) = CatalogLen
    /\ \A i \in 1..CatalogLen : Count(GM_PATCHES, Catalog[i]) = 1
    /\ used = SubSeq(GM_PATCHES, 1, Len(used))
    /\ \A i, j \in DOMAIN used : i # j => used[i] # used[j]

C7_Witness ==
    /\ Len(used) = TakeLen
    /\ GM_PATCHES # SubSeq(Catalog, 1, CatalogLen)
    /\ pc = "done"

\* C8: when the transform tool fails for one instruction of a job, the other
\* instructions of the job are still attempted and the failure is reported
\* as an AugmentationFailure, so that the end of the run tells a complete
\* dataset from one with missing artifacts (stated of the last job, at the
\* end of the run, when its base waveform was produced).
C8_AugmentationFailuresReported ==
    (pc = "done" /\ base = "ok") =>
        /\ Len(issued) = 3 * Len(shifts)
        /\ Cardinality(Reports("AugmentationFailure", sample.name)) = failed

\* the calls a job receives, in order
Lifecycle ==
    <<"make_wav">> \o [k \in 1..(3 * (NumShifts + 1)) |-> "transform_wav"]
                   \o <<"clean">>

\* C9: every job goes Created -> Rendered -> Augmented -> Finalized: make_wav
\* once and before the first transform_wav, clean once and after the last,
\* no transform_wav before the render or after the clean; the next job is
\* created only when the current one is finalized.
C9_JobLifecycle ==
    /\ Len(trace) <= Len(Lifecycle)
    /\ trace = SubSeq(Lifecycle, 1, Len(trace))
    /\ pc = "make_wav" => trace = <<>>
    /\ (pc \in {"octave", "patch", "key", "done"} /\ sample # NoSample) =>
          trace = Lifecycle

C9_Witness ==
    /\ trace = Lifecycle
    /\ pc = "key"
    /\ keyIdx <= NumKeys

\* C10: across all jobs of a run no two transform_wav invocations name the
\* same output file, so nothing written earlier in the run is overwritten.
C10_AppendOnlyDirectory == clobbered = {}

====
